---- MODULE Spec2Model ----
(***************************************************************************)
(* Model of the fowler.dev CDK stack.  The repository holds two variants   *)
(* of FowlerDevStack:                                                      *)
(*   "OAC"  src/unnamed/part_000 (lines 14-205): origin access control,    *)
(*          viewer-request rewrite function, 403 and 404 error mapping;    *)
(*   "OAI"  src/infra/lib/fowler-dev-stack.ts: origin access identity.     *)
(* A run of the program is: new cdk.App(), the FowlerDevStack constructor  *)
(* executed statement by statement (pc walks through its statements),      *)
(* synthesis of the template, and the application of the template by the   *)
(* external engine.  Text is modelled as sequences of one-character        *)
(* strings so that replace / concatenation / indexOf are computed.         *)
(***************************************************************************)
EXTENDS Integers, Sequences, FiniteSets, TLC

VARIABLES
    variant,      \* which FowlerDevStack source is run
    account,      \* props.env.account  (CDK_DEFAULT_ACCOUNT)
    region,       \* props.env.region   (CDK_DEFAULT_REGION)
    run,          \* 1 = first application, 2 = re-application
    phase,        \* "construct" | "deploy" | "applied" | "idle" | "handled"
    pc,           \* index of the next constructor statement
    tree,         \* construct tree: logical id -> [type, props, refs]
    overrides,    \* raw property overrides on the CfnDistribution
    template,     \* synthesized template: logical id -> [type, props, refs]
    createCount,  \* how many times the engine created each resource
    applied,      \* the template of the last completed application
    mutations,    \* resource ids mutated by the last application
    uri,          \* event.request.uri given to the rewrite handler
    request       \* request.uri returned by the rewrite handler

vars == <<variant, account, region, run, phase, pc, tree, overrides, template,
          createCount, applied, mutations, uri, request>>

----------------------------------------------------------------------------
(* Bounds of the model *)

\* length of the account ids that are enumerated
AcctLen == 2
\* number of characters after the leading "/" of an enumerated request path
MaxTail == 5

----------------------------------------------------------------------------
(* Text helpers *)

\* all sequences over S of length 0..n
RECURSIVE SeqsUpTo(_, _)
SeqsUpTo(S, n) ==
    IF n = 0 THEN {<<>>}
    ELSE LET shorter == SeqsUpTo(S, n - 1)
         IN  shorter \cup {Append(s, c) : s \in {t \in shorter : Len(t) = n - 1}, c \in S}

\* String.prototype.replace(/x/g, y) for a one-character pattern
ReplaceAll(s, from, to) ==
    [i \in 1..Len(s) |-> IF s[i] = from THEN to ELSE s[i]]

\* String.prototype.indexOf(ch), 0-based, -1 when absent
indexOf(s, ch) ==
    IF \E i \in 1..Len(s) : s[i] = ch
    THEN (CHOOSE i \in 1..Len(s) : s[i] = ch /\ \A j \in 1..(i - 1) : s[j] # ch) - 1
    ELSE -1

\* String.prototype.charAt(i), 0-based
charAt(s, i) == IF i >= 0 /\ i < Len(s) THEN s[i + 1] ELSE ""

----------------------------------------------------------------------------
(* Inputs *)

Variants == {"OAC", "OAI"}
AccountDigits == {"1", "2"}
Accounts == {a \in SeqsUpTo(AccountDigits, AcctLen) : Len(a) = AcctLen}
Regions == {"us-east-1", "eu-west-1"}

PathChars == {"/", ".", "a"}
Paths == {<<"/">> \o t : t \in SeqsUpTo(PathChars, MaxTail)}

----------------------------------------------------------------------------
(* Configuration derived at the top of the constructor *)

domainName == <<"f", "o", "w", "l", "e", "r", ".", "d", "e", "v">>

wwwDomainName == <<"w", "w", "w", ".">> \o domainName

sanitizedDomain == ReplaceAll(domainName, ".", "-")

hugoSiteSuffix == <<"-", "h", "u", "g", "o", "-", "s", "i", "t", "e">>

\* mutant: the name carries a per-run unique suffix
bucketNameOACPerRun(accountId) ==
    sanitizedDomain \o <<"-">> \o accountId \o hugoSiteSuffix \o (IF run = 1 THEN <<>> ELSE <<"-", "2">>)

bucketNameOAC(accountId) == sanitizedDomain \o <<"-">> \o accountId \o hugoSiteSuffix

bucketNameOAI(accountId) == domainName \o hugoSiteSuffix

----------------------------------------------------------------------------
(* Resource references (tokens resolved by the engine) *)

\* siteBucket.bucketArn followed by a literal path
BucketArn(path) == [service |-> "s3", account |-> <<>>, prefix |-> "", ref |-> "SiteBucket", path |-> path]

\* `arn:aws:cloudfront::${this.account}:distribution/${distribution.distributionId}`
DistributionArn(acct) ==
    [service |-> "cloudfront", account |-> acct, prefix |-> "distribution/", ref |-> "Distribution", path |-> ""]

BLOCK_ALL == [blockPublicAcls |-> TRUE, blockPublicPolicy |-> TRUE,
              ignorePublicAcls |-> TRUE, restrictPublicBuckets |-> TRUE]

Resource(type, props, refs) == [type |-> type, props |-> props, refs |-> refs]

Declared == DOMAIN tree

Declare(id, res) == tree' = tree @@ (id :> res)

----------------------------------------------------------------------------
(* The constructor, statement by statement *)

StepsOAC == <<"SiteBucket", "OAC", "HostedZone", "SiteCertificate", "UrlRewriteFn",
              "Distribution", "OriginOverrides", "BucketPolicy", "AliasRecord",
              "WwwAliasRecord", "GitHubActionsUser", "DeployPolicy", "Outputs">>

StepsOAI == <<"SiteBucket", "OAI", "GrantRead", "HostedZone", "SiteCertificate",
              "Distribution", "AliasRecord", "WwwAliasRecord", "GitHubActionsUser",
              "DeployPolicy", "Outputs">>

Steps(v) == IF v = "OAC" THEN StepsOAC ELSE StepsOAI

At(v, step) ==
    /\ phase = "construct"
    /\ variant = v
    /\ pc <= Len(Steps(v))
    /\ Steps(v)[pc] = step

Advance ==
    /\ pc' = pc + 1
    /\ UNCHANGED <<variant, account, region, run, phase, template, createCount,
                   applied, mutations, uri, request>>

\* new s3.Bucket(this, 'SiteBucket', {...}), OAC variant
SiteBucketPropsOAC(accountId) ==
    [bucketName |-> bucketNameOAC(accountId),
     websiteIndexDocument |-> "",
     websiteErrorDocument |-> "",
     publicReadAccess |-> FALSE,
     blockPublicAccess |-> BLOCK_ALL,
     accessControl |-> "",
     removalPolicy |-> "DESTROY",
     autoDeleteObjects |-> TRUE]

\* mutant: the website bucket opened for public read
SiteBucketPropsOAIPublic(accountId) ==
    [bucketName |-> bucketNameOAI(accountId),
     websiteIndexDocument |-> "index.html",
     websiteErrorDocument |-> "404.html",
     publicReadAccess |-> TRUE,
     blockPublicAccess |-> [blockPublicAcls |-> TRUE, blockPublicPolicy |-> FALSE,
                            ignorePublicAcls |-> TRUE, restrictPublicBuckets |-> FALSE],
     accessControl |-> "",
     removalPolicy |-> "DESTROY",
     autoDeleteObjects |-> TRUE]

\* new s3.Bucket(this, 'SiteBucket', {...}), OAI variant
SiteBucketPropsOAI(accountId) ==
    [bucketName |-> bucketNameOAI(accountId),
     websiteIndexDocument |-> "index.html",
     websiteErrorDocument |-> "404.html",
     publicReadAccess |-> FALSE,
     blockPublicAccess |-> BLOCK_ALL,
     accessControl |-> "",
     removalPolicy |-> "DESTROY",
     autoDeleteObjects |-> TRUE]

SiteBucketOAC ==
    /\ At("OAC", "SiteBucket")
    /\ Declare("SiteBucket", Resource("Bucket", SiteBucketPropsOAC(account), {}))
    /\ UNCHANGED overrides
    /\ Advance

SiteBucketOAI ==
    /\ At("OAI", "SiteBucket")
    /\ Declare("SiteBucket", Resource("Bucket", SiteBucketPropsOAI(account), {}))
    /\ UNCHANGED overrides
    /\ Advance

\* new cloudfront.CfnOriginAccessControl(this, 'OAC', {...})
OAC ==
    /\ At("OAC", "OAC")
    /\ Declare("OAC", Resource("OriginAccessControl",
                  [name |-> domainName \o <<"-", "o", "a", "c">>,
                   originAccessControlOriginType |-> "s3",
                   signingBehavior |-> "always",
                   signingProtocol |-> "sigv4"], {}))
    /\ UNCHANGED overrides
    /\ Advance

\* new cloudfront.OriginAccessIdentity(this, 'OAI', {...})
OAI ==
    /\ At("OAI", "OAI")
    /\ Declare("OAI", Resource("OriginAccessIdentity", [comment |-> "OAI for domain"], {}))
    /\ UNCHANGED overrides
    /\ Advance

\* the statement siteBucket.grantRead(originAccessIdentity) adds to the bucket policy
GrantReadStatement ==
    [effect |-> "Allow",
     actions |-> {"grantRead"},
     resources |-> <<BucketArn(""), BucketArn("/*")>>,
     principals |-> {[kind |-> "OriginAccessIdentity", name |-> "OAI"]},
     conditions |-> {}]

\* siteBucket.grantRead(originAccessIdentity)
GrantRead ==
    /\ At("OAI", "GrantRead")
    /\ Declare("SiteBucketPolicy",
               Resource("BucketPolicy", [bucket |-> "SiteBucket", statements |-> <<GrantReadStatement>>],
                        {"SiteBucket", "OAI"}))
    /\ UNCHANGED overrides
    /\ Advance

\* route53.HostedZone.fromLookup(this, 'HostedZone', {domainName})
HostedZone ==
    /\ \E v \in Variants : At(v, "HostedZone")
    /\ Declare("HostedZone", Resource("Imported", [zoneName |-> domainName], {}))
    /\ UNCHANGED overrides
    /\ Advance

\* new certificatemanager.DnsValidatedCertificate(this, 'SiteCertificate', {...})
SiteCertificate ==
    /\ \E v \in Variants : At(v, "SiteCertificate")
    /\ Declare("SiteCertificate",
               Resource("Certificate",
                        [domainName |-> domainName,
                         hostedZone |-> "HostedZone",
                         region |-> "us-east-1",
                         subjectAlternativeNames |-> <<wwwDomainName>>],
                        {"HostedZone"}))
    /\ UNCHANGED overrides
    /\ Advance

----------------------------------------------------------------------------
(* The viewer-request rewrite function (inline CloudFront Function code) *)

indexHtml == <<"i", "n", "d", "e", "x", ".", "h", "t", "m", "l">>

\* mutant: the length guard lets the root path through
handlerNoRootGuard(u) ==
    IF u # <<>> /\ Len(u) > 0
    THEN IF charAt(u, Len(u) - 1) = "/"
         THEN u \o indexHtml
         ELSE IF indexOf(u, ".") = -1
              THEN u \o <<"/">> \o indexHtml
              ELSE u
    ELSE u

\* function handler(event): returns request.uri
handler(u) ==
    IF u # <<>> /\ Len(u) > 1
    THEN IF charAt(u, Len(u) - 1) = "/"
         THEN u \o indexHtml
         ELSE IF indexOf(u, ".") = -1
              THEN u \o <<"/">> \o indexHtml
              ELSE u
    ELSE u

\* new cloudfront.Function(this, 'UrlRewriteFn', {code: fromInline(...)})
UrlRewriteFn ==
    /\ At("OAC", "UrlRewriteFn")
    /\ Declare("UrlRewriteFn", Resource("Function", [code |-> "handler"], {}))
    /\ UNCHANGED overrides
    /\ Advance

----------------------------------------------------------------------------
(* The distribution *)

ErrorResponse(status) ==
    [httpStatus |-> status, responseHttpStatus |-> 404,
     responsePagePath |-> "/404.html", ttlMinutes |-> 30]

\* mutant: the 403 rule is missing
errorResponsesOACWithout403 == <<ErrorResponse(404)>>

\* errorResponses of the OAC variant
errorResponsesOAC == <<ErrorResponse(403), ErrorResponse(404)>>

\* errorResponses of the OAI variant
errorResponsesOAI == <<ErrorResponse(404)>>

\* new cloudfront.Distribution(this, 'Distribution', {...}), OAC variant
DistributionPropsOAC ==
    [origin |-> [kind |-> "S3Origin", bucket |-> "SiteBucket", originAccessIdentity |-> ""],
     viewerProtocolPolicy |-> "REDIRECT_TO_HTTPS",
     cachePolicy |-> "CACHING_OPTIMIZED",
     functionAssociations |-> {[function |-> "UrlRewriteFn", eventType |-> "VIEWER_REQUEST"]},
     domainNames |-> <<domainName, wwwDomainName>>,
     certificate |-> "SiteCertificate",
     defaultRootObject |-> "index.html",
     errorResponses |-> errorResponsesOAC]

\* new cloudfront.Distribution(this, 'Distribution', {...}), OAI variant
DistributionPropsOAI ==
    [origin |-> [kind |-> "S3Origin", bucket |-> "SiteBucket", originAccessIdentity |-> "OAI"],
     viewerProtocolPolicy |-> "REDIRECT_TO_HTTPS",
     cachePolicy |-> "CACHING_OPTIMIZED",
     functionAssociations |-> {},
     domainNames |-> <<domainName, wwwDomainName>>,
     certificate |-> "SiteCertificate",
     defaultRootObject |-> "index.html",
     errorResponses |-> errorResponsesOAI]

DistributionOAC ==
    /\ At("OAC", "Distribution")
    /\ Declare("Distribution",
               Resource("Distribution", DistributionPropsOAC,
                        {"SiteBucket", "UrlRewriteFn", "SiteCertificate"}))
    /\ UNCHANGED overrides
    /\ Advance

DistributionOAI ==
    /\ At("OAI", "Distribution")
    /\ Declare("Distribution",
               Resource("Distribution", DistributionPropsOAI,
                        {"SiteBucket", "OAI", "SiteCertificate"}))
    /\ UNCHANGED overrides
    /\ Advance

Override(op, path, ref, text) ==
    [target |-> "Distribution", op |-> op, path |-> path, ref |-> ref, text |-> text]

\* the three raw overrides applied to distribution.node.defaultChild
OriginOverrideList ==
    << Override("set", "DistributionConfig.Origins.0.OriginAccessControlId", "OAC", ""),
       Override("set", "DistributionConfig.Origins.0.S3OriginConfig.OriginAccessIdentity", "", ""),
       Override("delete", "DistributionConfig.Origins.0.CustomOriginConfig", "", "") >>

\* cfnDistribution = distribution.node.defaultChild; addPropertyOverride x2;
\* addPropertyDeletionOverride.  defaultChild is undefined (and the call throws)
\* unless the Distribution construct has been created.
OriginOverrides ==
    /\ At("OAC", "OriginOverrides")
    /\ "Distribution" \in Declared
    /\ overrides' = overrides \o OriginOverrideList
    /\ UNCHANGED tree
    /\ Advance

\* mutant: the source ARN condition names every distribution of the account
BucketPolicyStatementWildcard(acct) ==
    [effect |-> "Allow",
     actions |-> {"s3:GetObject"},
     resources |-> <<BucketArn("/*")>>,
     principals |-> {[kind |-> "Service", name |-> "cloudfront.amazonaws.com"]},
     conditions |-> {[op |-> "StringEquals", key |-> "AWS:SourceArn",
                      value |-> [service |-> "cloudfront", account |-> acct,
                                 prefix |-> "distribution/", ref |-> "*", path |-> ""]]}]

\* the statement passed to siteBucket.addToResourcePolicy
BucketPolicyStatement(acct) ==
    [effect |-> "Allow",
     actions |-> {"s3:GetObject"},
     resources |-> <<BucketArn("/*")>>,
     principals |-> {[kind |-> "Service", name |-> "cloudfront.amazonaws.com"]},
     conditions |-> {[op |-> "StringEquals", key |-> "AWS:SourceArn", value |-> DistributionArn(acct)]}]

\* siteBucket.addToResourcePolicy(new iam.PolicyStatement({...}))
BucketPolicy ==
    /\ At("OAC", "BucketPolicy")
    /\ Declare("SiteBucketPolicy",
               Resource("BucketPolicy",
                        [bucket |-> "SiteBucket", statements |-> <<BucketPolicyStatement(account)>>],
                        {"SiteBucket", "Distribution"}))
    /\ UNCHANGED overrides
    /\ Advance

----------------------------------------------------------------------------
(* DNS records *)

\* the name Route 53 gives a record: the zone apex when recordName is omitted
RecordFqdn(recordName, zoneName) ==
    IF recordName = <<>> THEN zoneName ELSE recordName \o <<".">> \o zoneName

\* new route53.ARecord(this, 'AliasRecord', {zone, target})
AliasRecord ==
    /\ \E v \in Variants : At(v, "AliasRecord")
    /\ Declare("AliasRecord",
               Resource("ARecord",
                        [zone |-> "HostedZone", recordName |-> <<>>, target |-> "Distribution"],
                        {"HostedZone", "Distribution"}))
    /\ UNCHANGED overrides
    /\ Advance

\* mutant: the second record is declared without its recordName
WwwAliasRecordAtApex ==
    /\ \E v \in Variants : At(v, "WwwAliasRecord")
    /\ Declare("WwwAliasRecord",
               Resource("ARecord",
                        [zone |-> "HostedZone", recordName |-> <<>>, target |-> "Distribution"],
                        {"HostedZone", "Distribution"}))
    /\ UNCHANGED overrides
    /\ Advance

\* new route53.ARecord(this, 'WwwAliasRecord', {zone, recordName: 'www', target})
WwwAliasRecord ==
    /\ \E v \in Variants : At(v, "WwwAliasRecord")
    /\ Declare("WwwAliasRecord",
               Resource("ARecord",
                        [zone |-> "HostedZone", recordName |-> <<"w", "w", "w">>, target |-> "Distribution"],
                        {"HostedZone", "Distribution"}))
    /\ UNCHANGED overrides
    /\ Advance

----------------------------------------------------------------------------
(* Deployment identity *)

\* new iam.User(this, 'GitHubActionsUser', {userName})
GitHubActionsUser ==
    /\ \E v \in Variants : At(v, "GitHubActionsUser")
    /\ Declare("GitHubActionsUser",
               Resource("User",
                        [userName |-> domainName \o <<"-", "g", "i", "t", "h", "u", "b", "-",
                                                      "a", "c", "t", "i", "o", "n", "s">>],
                        {}))
    /\ UNCHANGED overrides
    /\ Advance

\* mutant: cache invalidation granted on every distribution of the account
DeployPolicyStatementsWildcard(acct) ==
    << [effect |-> "Allow",
        actions |-> {"s3:PutObject", "s3:PutObjectAcl", "s3:GetObject", "s3:DeleteObject", "s3:ListBucket"},
        resources |-> <<BucketArn(""), BucketArn("/*")>>,
        principals |-> {},
        conditions |-> {}],
       [effect |-> "Allow",
        actions |-> {"cloudfront:CreateInvalidation"},
        resources |-> <<[service |-> "cloudfront", account |-> acct,
                         prefix |-> "distribution/", ref |-> "*", path |-> ""]>>,
        principals |-> {},
        conditions |-> {}] >>

\* statements of new iam.Policy(this, 'DeployPolicy', {...})
DeployPolicyStatements(acct) ==
    << [effect |-> "Allow",
        actions |-> {"s3:PutObject", "s3:PutObjectAcl", "s3:GetObject", "s3:DeleteObject", "s3:ListBucket"},
        resources |-> <<BucketArn(""), BucketArn("/*")>>,
        principals |-> {},
        conditions |-> {}],
       [effect |-> "Allow",
        actions |-> {"cloudfront:CreateInvalidation"},
        resources |-> <<DistributionArn(acct)>>,
        principals |-> {},
        conditions |-> {}] >>

\* new iam.Policy(this, 'DeployPolicy', {...}); deployUser.attachInlinePolicy(deployPolicy)
DeployPolicy ==
    /\ \E v \in Variants : At(v, "DeployPolicy")
    /\ Declare("DeployPolicy",
               Resource("Policy",
                        [statements |-> DeployPolicyStatements(account), users |-> {"GitHubActionsUser"}],
                        {"SiteBucket", "Distribution", "GitHubActionsUser"}))
    /\ UNCHANGED overrides
    /\ Advance

\* the four cdk.CfnOutput declarations
Outputs ==
    /\ \E v \in Variants : At(v, "Outputs")
    /\ tree' = tree @@ ("BucketName" :> Resource("Output", [value |-> "SiteBucket", attr |-> "bucketName"], {"SiteBucket"}))
                    @@ ("DistributionId" :> Resource("Output", [value |-> "Distribution", attr |-> "distributionId"], {"Distribution"}))
                    @@ ("DistributionDomainName" :> Resource("Output", [value |-> "Distribution", attr |-> "distributionDomainName"], {"Distribution"}))
                    @@ ("DeployUserName" :> Resource("Output", [value |-> "GitHubActionsUser", attr |-> "userName"], {"GitHubActionsUser"}))
    /\ UNCHANGED overrides
    /\ Advance

----------------------------------------------------------------------------
(* Synthesis and application of the declaration *)

AllIds == {"SiteBucket", "OAC", "OAI", "HostedZone", "SiteCertificate", "UrlRewriteFn",
           "Distribution", "SiteBucketPolicy", "AliasRecord", "WwwAliasRecord",
           "GitHubActionsUser", "DeployPolicy", "BucketName", "DistributionId",
           "DistributionDomainName", "DeployUserName"}

ConstructorDone == phase = "construct" /\ pc = Len(Steps(variant)) + 1

\* mutant: the override carries a literal id, so no reference is declared
OverrideRefsNone(id) == {}

\* resources a raw override on `id` references through a token (oac.attrId)
OverrideRefs(id) ==
    {overrides[i].ref : i \in {j \in 1..Len(overrides) :
                                  overrides[j].target = id /\ overrides[j].ref # ""}}

OverridesOn(id) == SelectSeq(overrides, LAMBDA o : o.target = id)

\* the desired-state declaration: every construct with its raw overrides
Synth ==
    [id \in Declared |->
        [type |-> tree[id].type,
         props |-> tree[id].props,
         refs |-> tree[id].refs \cup OverrideRefs(id),
         rawOverrides |-> OverridesOn(id)]]

\* the App is synthesized once the constructor has returned
Synthesize ==
    /\ ConstructorDone
    /\ template' = Synth
    /\ phase' = "deploy"
    /\ mutations' = {}
    /\ UNCHANGED <<variant, account, region, run, pc, tree, overrides, createCount,
                   applied, uri, request>>

Created == {r \in AllIds : createCount[r] > 0}

Existing == Created \cup {r \in DOMAIN template : template[r].type = "Imported"}

ToCreate == DOMAIN template \ DOMAIN applied

Modified == {r \in DOMAIN template \cap DOMAIN applied : template[r] # applied[r]}

Removed == DOMAIN applied \ DOMAIN template

\* the engine creates a resource once everything it references exists
Create(r) ==
    /\ phase = "deploy"
    /\ r \in ToCreate
    /\ template[r].type # "Imported"
    /\ createCount[r] = 0
    /\ template[r].refs \subseteq Existing
    /\ createCount' = [createCount EXCEPT ![r] = @ + 1]
    /\ mutations' = mutations \cup {r}
    /\ UNCHANGED <<variant, account, region, run, phase, pc, tree, overrides,
                   template, applied, uri, request>>

\* the application completes: what differs from the applied state was mutated
FinishApply ==
    /\ phase = "deploy"
    /\ ToCreate \subseteq Existing
    /\ mutations' = mutations \cup Modified \cup Removed
    /\ applied' = template
    /\ phase' = "applied"
    /\ UNCHANGED <<variant, account, region, run, pc, tree, overrides, template,
                   createCount, uri, request>>

\* the program is run again with the same inputs: a new App, a new construct tree
Reapply ==
    /\ phase = "applied"
    /\ run = 1
    /\ run' = 2
    /\ phase' = "construct"
    /\ pc' = 1
    /\ tree' = <<>>
    /\ overrides' = <<>>
    /\ UNCHANGED <<variant, account, region, template, createCount, applied,
                   mutations, uri, request>>

----------------------------------------------------------------------------
(* Specification of the stack: construction, synthesis, application *)

Init ==
    /\ variant \in Variants
    /\ account \in Accounts
    /\ region \in Regions
    /\ run = 1
    /\ phase = "construct"
    /\ pc = 1
    /\ tree = <<>>
    /\ overrides = <<>>
    /\ template = <<>>
    /\ createCount = [r \in AllIds |-> 0]
    /\ applied = <<>>
    /\ mutations = {}
    /\ uri = <<>>
    /\ request = <<>>

Next ==
    \/ SiteBucketOAC
    \/ SiteBucketOAI
    \/ OAC
    \/ OAI
    \/ GrantRead
    \/ HostedZone
    \/ SiteCertificate
    \/ UrlRewriteFn
    \/ DistributionOAC
    \/ DistributionOAI
    \/ OriginOverrides
    \/ BucketPolicy
    \/ AliasRecord
    \/ WwwAliasRecord
    \/ GitHubActionsUser
    \/ DeployPolicy
    \/ Outputs
    \/ Synthesize
    \/ \E r \in AllIds : Create(r)
    \/ FinishApply
    \/ Reapply

Spec == Init /\ [][Next]_vars

----------------------------------------------------------------------------
(* Specification of the rewrite function: every bounded path is handled *)

InitRewrite ==
    /\ variant = "OAC"
    /\ account = CHOOSE a \in Accounts : TRUE
    /\ region = "us-east-1"
    /\ run = 1
    /\ phase = "idle"
    /\ pc = 1
    /\ tree = <<>>
    /\ overrides = <<>>
    /\ template = <<>>
    /\ createCount = [r \in AllIds |-> 0]
    /\ applied = <<>>
    /\ mutations = {}
    /\ uri \in Paths
    /\ request = <<>>

\* a viewer request reaches the function: request.uri is what handler returns
HandleRequest ==
    /\ phase = "idle"
    /\ request' = handler(uri)
    /\ phase' = "handled"
    /\ UNCHANGED <<variant, account, region, run, pc, tree, overrides, template,
                   createCount, applied, mutations, uri>>

NextRewrite == HandleRequest

SpecRewrite == InitRewrite /\ [][NextRewrite]_vars

----------------------------------------------------------------------------
(* Helpers of the properties *)

Range(f) == {f[i] : i \in DOMAIN f}

BucketPolicyStatements ==
    IF "SiteBucketPolicy" \in Declared
    THEN Range(tree["SiteBucketPolicy"].props.statements)
    ELSE {}

CdnServicePrincipal == [kind |-> "Service", name |-> "cloudfront.amazonaws.com"]

\* arn:aws:cloudfront::<this account>:distribution/<id of this stack's Distribution>
OwnDistributionArn ==
    [service |-> "cloudfront", account |-> account, prefix |-> "distribution/",
     ref |-> "Distribution", path |-> ""]

OwnBucketArn ==
    [service |-> "s3", account |-> <<>>, prefix |-> "", ref |-> "SiteBucket", path |-> ""]

OwnBucketObjectsArn ==
    [service |-> "s3", account |-> <<>>, prefix |-> "", ref |-> "SiteBucket", path |-> "/*"]

AllowsOnlyCdnFromOwnDistribution(st) ==
    /\ st.effect = "Allow"
    /\ st.principals = {CdnServicePrincipal}
    /\ st.conditions = {[op |-> "StringEquals", key |-> "AWS:SourceArn", value |-> OwnDistributionArn]}

----------------------------------------------------------------------------
(* C1 *)

----------------------------------------------------------------------------
(* C2 *)

\* C2: the deployment policy has exactly two statements; the object-level actions
\* are attached to this stack's bucket ARN and bucket ARN + "/*" only, cache
\* invalidation to this stack's distribution ARN only; no wildcard, no other resource.
C2_DeployPolicyScoped ==
    "DeployPolicy" \in Declared =>
        LET sts == tree["DeployPolicy"].props.statements
        IN  /\ Len(sts) = 2
            /\ sts[1].effect = "Allow"
            /\ sts[1].actions = {"s3:PutObject", "s3:PutObjectAcl", "s3:GetObject",
                                 "s3:DeleteObject", "s3:ListBucket"}
            /\ sts[1].resources = <<OwnBucketArn, OwnBucketObjectsArn>>
            /\ sts[2].effect = "Allow"
            /\ sts[2].actions = {"cloudfront:CreateInvalidation"}
            /\ sts[2].resources = <<OwnDistributionArn>>
            /\ \A i \in 1..Len(sts) : \A a \in Range(sts[i].resources) :
                   /\ a.ref \in {"SiteBucket", "Distribution"}
                   /\ a.ref \in Declared
            /\ tree["DeployPolicy"].props.users = {"GitHubActionsUser"}

C2_Witness ==
    /\ "DeployPolicy" \in Created
    /\ phase = "applied"
    /\ account = <<"2", "1">>

----------------------------------------------------------------------------
(* C5 *)

\* the distribution rewrites origin status `code` to /404.html, status 404, 30 minutes
MapsTo404Page(code) ==
    LET rs == {r \in Range(tree["Distribution"].props.errorResponses) : r.httpStatus = code}
    IN  /\ rs # {}
        /\ \A r \in rs : /\ r.responseHttpStatus = 404
                         /\ r.responsePagePath = "/404.html"
                         /\ r.ttlMinutes = 30

PassesThrough(code) ==
    \A r \in Range(tree["Distribution"].props.errorResponses) : r.httpStatus # code

\* C5 as stated: in every variant both an origin 403 and an origin 404 are mapped
\* to /404.html with status 404, cached 30 minutes.
C5_AllVariantsMap403And404 ==
    "Distribution" \in Declared => MapsTo404Page(403) /\ MapsTo404Page(404)

\* C5 amended: the OAC variant maps both origin 403 and origin 404 to /404.html with
\* status 404 for 30 minutes; the OAI variant maps only origin 404 that way and
\* passes an origin 403 through unmapped.
C5_ErrorResponses ==
    "Distribution" \in Declared =>
        /\ MapsTo404Page(404)
        /\ variant = "OAC" => MapsTo404Page(403)
        /\ variant = "OAI" => PassesThrough(403)

C5_Witness ==
    /\ variant = "OAC"
    /\ "Distribution" \in Created
    /\ Len(tree["Distribution"].props.errorResponses) = 2

----------------------------------------------------------------------------
(* C6 *)

ARecords == {r \in Declared : tree[r].type = "ARecord"}

RecordNames ==
    {RecordFqdn(tree[r].props.recordName, tree[tree[r].props.zone].props.zoneName) : r \in ARecords}

\* C6: once the constructor has run, the hostnames of the alias records (each
\* targeting this stack's distribution) are exactly the distribution's domainNames.
C6_RecordsMatchDomainNames ==
    pc = Len(Steps(variant)) + 1 =>
        /\ RecordNames = Range(tree["Distribution"].props.domainNames)
        /\ Cardinality(ARecords) = 2
        /\ \A r \in ARecords : tree[r].props.target = "Distribution"
        /\ Range(tree["Distribution"].props.domainNames) =
               {domainName, <<"w", "w", "w", ".">> \o domainName}

C6_Witness ==
    /\ phase = "applied"
    /\ {"AliasRecord", "WwwAliasRecord"} \subseteq Created
    /\ Cardinality(RecordNames) = 2

----------------------------------------------------------------------------
(* C7 *)

PublicAcls == {"PUBLIC_READ", "PUBLIC_READ_WRITE"}

\* a statement that grants to everyone (an anonymous caller)
GrantsAnonymous(st) ==
    st.effect = "Allow" /\ (st.principals = {} \/ \E q \in st.principals : q.kind = "Any")

\* C7: whatever the account, region and variant, the bucket is declared with the
\* block-all public-access setting and public read disabled, no ACL is declared,
\* and no bucket-policy statement grants to an anonymous principal.  A website
\* configuration, where one is declared, changes none of these: the website
\* endpoint serves anonymous requests only, which the block refuses.
C7_PublicAccessBlocked ==
    "SiteBucket" \in Declared =>
        LET b == tree["SiteBucket"].props
        IN  /\ b.blockPublicAccess.blockPublicAcls
            /\ b.blockPublicAccess.blockPublicPolicy
            /\ b.blockPublicAccess.ignorePublicAcls
            /\ b.blockPublicAccess.restrictPublicBuckets
            /\ b.publicReadAccess = FALSE
            /\ b.accessControl \notin PublicAcls
            /\ \A st \in BucketPolicyStatements : ~GrantsAnonymous(st)
            /\ (phase \in {"deploy", "applied"} /\ run = 1) =>
                   template["SiteBucket"].props = b

C7_Witness ==
    /\ variant = "OAI"
    /\ region = "eu-west-1"
    /\ "SiteBucket" \in Created
    /\ tree["SiteBucket"].props.websiteIndexDocument = "index.html"
    /\ BucketPolicyStatements # {}

----------------------------------------------------------------------------
(* C8 *)

Provisioned == DOMAIN template \ {r \in DOMAIN template : template[r].type = "Imported"}

\* resources reachable from r through declared references, in at most n steps
RECURSIVE ReachableFrom(_, _)
ReachableFrom(R, n) ==
    IF n = 0 THEN R
    ELSE LET next == R \cup UNION {template[x].refs : x \in R \cap DOMAIN template}
         IN  IF next = R THEN R ELSE ReachableFrom(next, n - 1)

Acyclic ==
    \A r \in DOMAIN template :
        r \notin ReachableFrom(template[r].refs, Cardinality(AllIds))

After(r, deps) == r \in Created => deps \subseteq Existing

AccessBinding == IF variant = "OAC" THEN "OAC" ELSE "OAI"

\* C8: every resource is created at most once and never before a resource it
\* references: the distribution after the bucket, the access binding, the
\* certificate and (where declared) the rewrite function; the raw overrides only on
\* a distribution that has been defined; the bucket policy that names the
\* distribution id after the distribution; the alias records after the
\* distribution; the deployment policy after bucket, distribution and user; the
\* outputs after what they read.  The declared references have no cycle.
C8_DependencyOrder ==
    /\ \A r \in AllIds : createCount[r] <= 1
    /\ Created \subseteq Provisioned
    /\ \A r \in Created : template[r].refs \subseteq Existing
    /\ Acyclic
    /\ overrides # <<>> => "Distribution" \in Declared
    /\ After("Distribution", {"SiteBucket", "SiteCertificate", AccessBinding})
    /\ variant = "OAC" => After("Distribution", {"UrlRewriteFn"})
    /\ variant = "OAC" => After("SiteBucketPolicy", {"Distribution"})
    /\ After("SiteBucketPolicy", {"SiteBucket"})
    /\ After("AliasRecord", {"Distribution"})
    /\ After("WwwAliasRecord", {"Distribution"})
    /\ After("DeployPolicy", {"SiteBucket", "Distribution", "GitHubActionsUser"})
    /\ After("BucketName", {"SiteBucket"})
    /\ After("DistributionId", {"Distribution"})
    /\ After("DistributionDomainName", {"Distribution"})
    /\ After("DeployUserName", {"GitHubActionsUser"})

\* an order exists: every declared resource has been created
C8_Witness ==
    /\ variant = "OAC"
    /\ phase = "applied"
    /\ run = 1
    /\ Created = Provisioned
    /\ Cardinality(Created) = 14
    /\ overrides # <<>>

----------------------------------------------------------------------------
(* C9 *)

----------------------------------------------------------------------------
(* C10 *)

LabelChars == {"a", "b", "c", "d", "e", "f", "g", "h", "i", "j", "k", "l", "m", "n",
               "o", "p", "q", "r", "s", "t", "u", "v", "w", "x", "y", "z",
               "0", "1", "2", "3", "4", "5", "6", "7", "8", "9", "-"}

bucketNameOf(v, accountId) ==
    IF v = "OAC" THEN bucketNameOAC(accountId) ELSE bucketNameOAI(accountId)

\* C10: in every variant the bucket name is a function of the domain and the
\* account id, contains no "." and only DNS-label characters, and differs between
\* two different account ids.
C10_BucketNameSafeAndPerAccount ==
    "SiteBucket" \in Declared =>
        LET name == tree["SiteBucket"].props.bucketName
        IN  /\ name = bucketNameOf(variant, account)
            /\ \A i \in 1..Len(name) : name[i] # "." /\ name[i] \in LabelChars
            /\ \A other \in Accounts \ {account} : bucketNameOf(variant, other) # name

----------------------------------------------------------------------------
(* C3 *)

EndsInSlash(u) == Len(u) > 0 /\ u[Len(u)] = "/"

\* C3 as stated: every path that ends in "/", the root "/" included, is returned
\* with index.html appended.
C3_EverySlashPathGetsIndex ==
    (phase = "handled" /\ EndsInSlash(uri)) => request = uri \o indexHtml

\* C3 amended: every path longer than one character that ends in "/" is returned
\* with index.html appended; the root path "/" is returned unchanged (the
\* distribution's defaultRootObject, not the function, serves it).
C3_SlashPathGetsIndexExceptRoot ==
    (phase = "handled" /\ EndsInSlash(uri)) =>
        IF Len(uri) > 1
        THEN request = uri \o <<"i", "n", "d", "e", "x", ".", "h", "t", "m", "l">>
        ELSE request = <<"/">>

C3_Witness ==
    /\ phase = "handled"
    /\ uri = <<"/", "a", "/">>
    /\ request = <<"/", "a", "/", "i", "n", "d", "e", "x", ".", "h", "t", "m", "l">>

----------------------------------------------------------------------------
(* C4 *)

LastSlash(u) == CHOOSE i \in 1..Len(u) : u[i] = "/" /\ \A j \in (i + 1)..Len(u) : u[j] # "/"

\* the text after the last "/"
FinalSegment(u) == SubSeq(u, LastSlash(u) + 1, Len(u))

\* C4: a path that does not end in "/" gets "/index.html" appended exactly when
\* its final segment contains no "."; otherwise it is returned unchanged.  A "."
\* in an earlier segment does not count.
C4_ExtensionOfFinalSegment ==
    (phase = "handled" /\ ~EndsInSlash(uri)) =>
        IF "." \notin Range(FinalSegment(uri))
        THEN request = uri \o <<"/">> \o indexHtml
        ELSE request = uri

====
